---- MODULE Spec2Model ----
(***************************************************************************)
(* Model of automation/main.go: a supervisor that validates its            *)
(* environment, starts a server subprocess, blocks on a termination        *)
(* signal, stops the server through its stdin and backs up the world.      *)
(*                                                                         *)
(* The main goroutine is sequential; pc is its position.  The environment  *)
(* (the OS delivering signals, the subprocess exiting, the outcome of      *)
(* every external call) is nondeterministic.                               *)
(***************************************************************************)
EXTENDS Naturals, Sequences, FiniteSets

VARIABLES
    world,        \* what the validation probes find on this host
    pc,           \* position of main
    registered,   \* signal.Notify has been called
    sigs,         \* contents of the buffered channel sigs
    nDelivered,   \* signals the OS has delivered so far
    firstSig,     \* first signal delivered after registration
    firstSigAt,   \* position of main when firstSig was delivered
    sig,          \* value received by main from sigs
    proc,         \* OS state of the managed subprocess
    exitCode,     \* exit status of the subprocess once it exited
    waitResult,   \* what cmd.Wait observed
    serverStdin,  \* control channel held by main
    stdinLog,     \* strings written to the subprocess's stdin
    ret,          \* return value of each function called so far
    keyExists,    \* the destination object exists in the bucket
    localArchive, \* the archive file exists on local disk
    calls,        \* external operations performed, in order
    out           \* lines printed / logged by the program

vars == <<world, pc, registered, sigs, nDelivered, firstSig, firstSigAt, sig, proc, exitCode,
          waitResult, serverStdin, stdinLog, ret, keyExists, localArchive,
          calls, out>>

envSig   == <<sigs, nDelivered, firstSig, firstSigAt>>
procVars == <<proc, exitCode>>
files    == <<keyExists, localArchive>>

(* ---------------------------------------------------------------- bounds *)
MaxSignals == 2

(* ------------------------------------------------------------- constants *)
SigChanCapTwo == 1 + 1
SigChanCap == 1
StatusOK == 200
StopCommandNoNewline == "stop"
StopCommand == "stop\n"
SuccessLine == "successful shutdown complete"

Signals == {"SIGTERM", "SIGINT"}
StatusCodes == {200, 204, 503}
ExitCodes == {0, 1}

Unset == "unset"
NoErr == "nil"
NoSig == "none"

Funcs == {"validateStartup", "startServer", "shutdownServer", "uploadFile",
          "backupWorld"}

\* The host the program runs on: the outcome of the HEAD request, whether
\* the env file loads, the value of GH_PAT in the environment (after the env
\* file has been applied, when it loads) and the exit status of java -version.
Worlds ==
    [transportErr : BOOLEAN, status : StatusCodes, loadErr : BOOLEAN,
     ghToken : {"", "abc"}, javaExit : ExitCodes]

Terminated == pc \in {"done", "fatal", "killed", "panic"}

Call(op, ok) == Append(calls, [op |-> op, ok |-> ok])

Return(f, e) == [ret EXCEPT ![f] = e]

\* log.Fatal: print the message, then os.Exit(1)
Fatal(msg) == Append(out, msg)

(* ------------------------------------------------------------------ Init *)
Init ==
    /\ world \in Worlds
    /\ pc = "notify"
    /\ registered = FALSE
    /\ sigs = <<>>
    /\ nDelivered = 0
    /\ firstSig = NoSig
    /\ firstSigAt = NoSig
    /\ sig = NoSig
    /\ proc = "unstarted"
    /\ exitCode = 0
    /\ waitResult = Unset
    /\ serverStdin = "nil"
    /\ stdinLog = <<>>
    /\ ret = [f \in Funcs |-> Unset]
    /\ keyExists \in BOOLEAN
    /\ localArchive = FALSE
    /\ calls = <<>>
    /\ out = <<>>

(* ------------------------------------------------------- signal delivery *)
\* the signal package's non-blocking send: a full channel drops the signal
EnqueueOverwrite(ch, s) == <<s>>
Enqueue(ch, s) == IF Len(ch) < SigChanCap THEN Append(ch, s) ELSE ch

\* main.go:144-145
Notify ==
    /\ pc = "notify"
    /\ registered' = TRUE
    /\ pc' = "v_net"
    /\ UNCHANGED <<world, envSig, sig, procVars, waitResult, serverStdin, stdinLog,
                   ret, files, calls, out>>

\* The OS delivers SIGINT or SIGTERM to the supervisor.  Before Notify the
\* default disposition terminates the program; afterwards the signal is
\* offered to the channel.
DeliverSignal ==
    /\ ~Terminated
    /\ nDelivered < MaxSignals
    /\ \E s \in Signals :
        /\ nDelivered' = nDelivered + 1
        /\ IF registered
             THEN /\ sigs' = Enqueue(sigs, s)
                  /\ firstSig' = IF firstSig = NoSig THEN s ELSE firstSig
                  /\ firstSigAt' = IF firstSig = NoSig THEN pc
                                                       ELSE firstSigAt
                  /\ pc' = pc
             ELSE /\ pc' = "killed"
                  /\ UNCHANGED <<sigs, firstSig, firstSigAt>>
    /\ UNCHANGED <<world, registered, sig, procVars, waitResult, serverStdin,
                   stdinLog, ret, files, calls, out>>

(* ------------------------------------------------------- validateStartup *)
ValidationOrder == <<"Head", "godotenv.Load", "Getenv", "java -version">>

ValidationOps == {ValidationOrder[i] : i \in 1..Len(ValidationOrder)}

\* the error validateStartup returns when the named check fails
ValidationErr(op) ==
    CASE op = "Head"          -> "failed to confirm network connection"
      [] op = "godotenv.Load" -> "failed to load env file"
      [] op = "Getenv"        -> "failed to load github access token"
      [] op = "java -version" -> "failed to find JDK installation"

\* main.go:25
NetworkFailedTransportOnly(transportErr, status) == transportErr
NetworkFailed(transportErr, status) == transportErr \/ status # StatusOK

\* main.go:148-150 for an error returned by validateStartup
ValidationFails(op) ==
    /\ calls' = Call(op, FALSE)
    /\ ret' = Return("validateStartup", ValidationErr(op))
    /\ out' = Fatal("failed to validate startup")
    /\ pc' = "fatal"

ValidationPasses(op, line, next) ==
    /\ calls' = Call(op, TRUE)
    /\ out' = Append(out, line)
    /\ pc' = next
    /\ ret' = ret

\* a network check whose failure does not return
ValidateNetContinue ==
    /\ pc = "v_net"
    /\ \E transportErr \in {world.transportErr}, status \in {world.status} :
        /\ calls' = Call("Head", ~NetworkFailed(transportErr, status))
        /\ out' = Append(out, "confirmed network connection")
        /\ pc' = "v_env"
        /\ ret' = ret
    /\ UNCHANGED <<world, registered, envSig, sig, procVars, waitResult, serverStdin,
                   stdinLog, files>>

\* main.go:23-28
ValidateNet ==
    /\ pc = "v_net"
    /\ \E transportErr \in {world.transportErr}, status \in {world.status} :
        IF NetworkFailed(transportErr, status)
          THEN ValidationFails("Head")
          ELSE ValidationPasses("Head", "confirmed network connection",
                                "v_env")
    /\ UNCHANGED <<world, registered, envSig, sig, procVars, waitResult, serverStdin,
                   stdinLog, files>>

\* main.go:30-32
ValidateEnv ==
    /\ pc = "v_env"
    /\ \E loadErr \in {world.loadErr} :
        IF loadErr
          THEN ValidationFails("godotenv.Load")
          ELSE /\ calls' = Call("godotenv.Load", TRUE)
               /\ pc' = "v_token"
               /\ UNCHANGED <<ret, out>>
    /\ UNCHANGED <<world, registered, envSig, sig, procVars, waitResult, serverStdin,
                   stdinLog, files>>

\* main.go:33-36
ValidateToken ==
    /\ pc = "v_token"
    /\ \E ghToken \in {world.ghToken} :
        IF ghToken = ""
          THEN ValidationFails("Getenv")
          ELSE ValidationPasses("Getenv", "located github access token",
                                "v_jdk")
    /\ UNCHANGED <<world, registered, envSig, sig, procVars, waitResult, serverStdin,
                   stdinLog, files>>

\* a runtime probe whose failure does not stop the start
ValidateJDKContinue ==
    /\ pc = "v_jdk"
    /\ \E status \in {world.javaExit} :
        /\ calls' = Call("java -version", status = 0)
        /\ out' = Append(out, "found JDK installation")
        /\ ret' = Return("validateStartup",
                         IF status = 0 THEN NoErr
                                       ELSE ValidationErr("java -version"))
        /\ pc' = "s_pipe"
    /\ UNCHANGED <<world, registered, envSig, sig, procVars, waitResult,
                   serverStdin, stdinLog, files>>

\* main.go:38-45, and main.go:148 on success
ValidateJDK ==
    /\ pc = "v_jdk"
    /\ \E status \in {world.javaExit} :
        IF status # 0
          THEN ValidationFails("java -version")
          ELSE /\ calls' = Call("java -version", TRUE)
               /\ out' = Append(out, "found JDK installation")
               /\ ret' = Return("validateStartup", NoErr)
               /\ pc' = "s_pipe"
    /\ UNCHANGED <<world, registered, envSig, sig, procVars, waitResult, serverStdin,
                   stdinLog, files>>

(* ----------------------------------------------------------- startServer *)
\* a start whose failure main does not treat as fatal
StartSpawnIgnoreErr ==
    /\ pc = "s_start"
    /\ \E startErr \in BOOLEAN :
        IF startErr
          THEN /\ calls' = Call("Start", FALSE)
               /\ ret' = Return("startServer",
                                "failed to start server instance")
               /\ serverStdin' = "nil"
               /\ pc' = "recv"
               /\ UNCHANGED <<proc, out>>
          ELSE /\ calls' = Call("Start", TRUE)
               /\ ret' = Return("startServer", NoErr)
               /\ proc' = "running"
               /\ pc' = "recv"
               /\ UNCHANGED <<serverStdin, out>>
    /\ UNCHANGED <<world, registered, envSig, sig, exitCode, waitResult, stdinLog,
                   files>>

\* main.go:49-58, and main.go:153-155 on failure
StartPipe ==
    /\ pc = "s_pipe"
    /\ \E pipeErr \in BOOLEAN :
        IF pipeErr
          THEN /\ calls' = Call("StdinPipe", FALSE)
               /\ ret' = Return("startServer",
                                "failed to acquire pipe for server process")
               /\ out' = Fatal("failed to start server")
               /\ pc' = "fatal"
               /\ UNCHANGED serverStdin
          ELSE /\ calls' = Call("StdinPipe", TRUE)
               /\ serverStdin' = "pipe"
               /\ pc' = "s_start"
               /\ UNCHANGED <<ret, out>>
    /\ UNCHANGED <<world, registered, envSig, sig, procVars, waitResult, stdinLog,
                   files>>

\* a failed start that still hands the pipe back to main
StartSpawnErrKeepsPipe ==
    /\ pc = "s_start"
    /\ \E startErr \in BOOLEAN :
        /\ calls' = Call("Start", ~startErr)
        /\ ret' = Return("startServer",
                         IF startErr THEN "failed to start server instance"
                                     ELSE NoErr)
        /\ proc' = IF startErr THEN proc ELSE "running"
        /\ out' = IF startErr THEN Fatal("failed to start server") ELSE out
        /\ pc' = IF startErr THEN "fatal" ELSE "recv"
        /\ UNCHANGED serverStdin
    /\ UNCHANGED <<world, registered, envSig, sig, exitCode, waitResult,
                   stdinLog, files>>

\* main.go:60-64, and main.go:152-155
StartSpawn ==
    /\ pc = "s_start"
    /\ \E startErr \in BOOLEAN :
        IF startErr
          THEN /\ calls' = Call("Start", FALSE)
               /\ ret' = Return("startServer",
                                "failed to start server instance")
               /\ serverStdin' = "nil"
               /\ out' = Fatal("failed to start server")
               /\ pc' = "fatal"
               /\ UNCHANGED proc
          ELSE /\ calls' = Call("Start", TRUE)
               /\ ret' = Return("startServer", NoErr)
               /\ proc' = "running"
               /\ pc' = "recv"
               /\ UNCHANGED <<serverStdin, out>>
    /\ UNCHANGED <<world, registered, envSig, sig, exitCode, waitResult, stdinLog,
                   files>>

\* The subprocess exits, by itself or in answer to the stop command.  It is
\* in its own process group (main.go:53), so it outlives the supervisor.
ServerExit ==
    /\ proc = "running"
    /\ proc' = "exited"
    /\ exitCode' \in ExitCodes
    /\ UNCHANGED <<world, pc, registered, envSig, sig, waitResult, serverStdin,
                   stdinLog, ret, files, calls, out>>

\* a receive that treats an interrupt as an immediate exit
ReceiveSignalByKind ==
    /\ pc = "recv"
    /\ Len(sigs) > 0
    /\ sig' = Head(sigs)
    /\ sigs' = Tail(sigs)
    /\ out' = Append(out, "recieved signal, starting graceful shutdown")
    /\ pc' = IF Head(sigs) = "SIGINT" THEN "fatal" ELSE "sd_write"
    /\ UNCHANGED <<world, registered, nDelivered, firstSig, firstSigAt,
                   procVars, waitResult, serverStdin, stdinLog, ret, files,
                   calls>>

\* main.go:158-159
ReceiveSignal ==
    /\ pc = "recv"
    /\ Len(sigs) > 0
    /\ sig' = Head(sigs)
    /\ sigs' = Tail(sigs)
    /\ out' = Append(out, "recieved signal, starting graceful shutdown")
    /\ pc' = "sd_write"
    /\ UNCHANGED <<world, registered, nDelivered, firstSig, firstSigAt, procVars,
                   waitResult, serverStdin, stdinLog, ret, files, calls>>

(* -------------------------------------------------------- shutdownServer *)
\* A write to the pipe can succeed only while the subprocess holds the read
\* end; once the subprocess has exited the write fails (EPIPE).
WriteOutcomesAny(p) == BOOLEAN
WriteOutcomes(p) == IF p = "running" THEN BOOLEAN ELSE {FALSE}

\* a failed write after which the backup is run all the same
ShutdownWriteIgnoreErr ==
    /\ pc = "sd_write"
    /\ \E ok \in WriteOutcomes(proc) :
        /\ calls' = Call("WriteString", ok)
        /\ stdinLog' = IF ok THEN Append(stdinLog, StopCommand) ELSE stdinLog
        /\ out' = Append(out, "sending stop command to server process")
        /\ ret' = IF ok THEN ret ELSE Return("shutdownServer", NoErr)
        /\ pc' = IF ok THEN "sd_wait" ELSE "b_tar"
    /\ UNCHANGED <<world, registered, envSig, sig, procVars, waitResult, serverStdin,
                   files>>

\* a failed write after which the subprocess is waited for all the same
ShutdownWriteThenWait ==
    /\ pc = "sd_write"
    /\ \E ok \in WriteOutcomes(proc) :
        /\ calls' = Call("WriteString", ok)
        /\ stdinLog' = IF ok THEN Append(stdinLog, StopCommand) ELSE stdinLog
        /\ out' = Append(out, "sending stop command to server process")
        /\ ret' = ret
        /\ pc' = "sd_wait"
    /\ UNCHANGED <<world, registered, envSig, sig, procVars, waitResult,
                   serverStdin, files>>

\* main.go:68-72, and main.go:162-164 on failure
ShutdownWrite ==
    /\ pc = "sd_write"
    /\ IF serverStdin = "nil"
         THEN \* io.WriteString on a nil writer: nil dereference
              /\ pc' = "panic"
              /\ out' = Append(out, "sending stop command to server process")
              /\ UNCHANGED <<calls, stdinLog, ret>>
         ELSE \E ok \in WriteOutcomes(proc) :
                /\ calls' = Call("WriteString", ok)
                /\ IF ok
                     THEN /\ stdinLog' = Append(stdinLog, StopCommand)
                          /\ out' = Append(out,
                                 "sending stop command to server process")
                          /\ pc' = "sd_wait"
                          /\ ret' = ret
                     ELSE /\ stdinLog' = stdinLog
                          /\ ret' = Return("shutdownServer",
                                 "error writing to server process stdin")
                          /\ out' = out \o
                                 <<"sending stop command to server process",
                                   "error shutting down server">>
                          /\ pc' = "fatal"
    /\ UNCHANGED <<world, registered, envSig, sig, procVars, waitResult, serverStdin,
                   files>>

\* a wait that can give up before the subprocess has exited
WaitOutcomesTimeout(p, code) ==
    {"waiterr"} \cup (IF p = "exited"
                        THEN {IF code = 0 THEN "exit0" ELSE "nonzero"}
                        ELSE {})

\* What cmd.Wait can report.  The wait has no timeout and blocks until the
\* subprocess has exited; it then reports the exit status, or fails itself.
WaitOutcomes(p, code) ==
    IF p = "exited"
      THEN {"waiterr", IF code = 0 THEN "exit0" ELSE "nonzero"}
      ELSE {}

\* a wait whose error is dropped
ShutdownWaitIgnoreErr ==
    /\ pc = "sd_wait"
    /\ \E w \in WaitOutcomes(proc, exitCode) :
        /\ waitResult' = w
        /\ calls' = Call("Wait", w = "exit0")
        /\ serverStdin' = "closed"
        /\ ret' = Return("shutdownServer", NoErr)
        /\ pc' = "b_tar"
        /\ out' = out
    /\ UNCHANGED <<world, registered, envSig, sig, procVars, stdinLog, files>>

\* a failed wait after which the stop command is sent again
ShutdownWaitRetry ==
    /\ pc = "sd_wait"
    /\ \E w \in WaitOutcomes(proc, exitCode) :
        /\ waitResult' = w
        /\ calls' = Call("Wait", w = "exit0")
        /\ serverStdin' = "closed"
        /\ ret' = IF w = "exit0" THEN Return("shutdownServer", NoErr) ELSE ret
        /\ pc' = IF w = "exit0" THEN "b_tar" ELSE "sd_write"
        /\ out' = out
    /\ UNCHANGED <<world, registered, envSig, sig, procVars, stdinLog, files>>

\* main.go:74-77, and main.go:162-164
ShutdownWait ==
    /\ pc = "sd_wait"
    /\ \E w \in WaitOutcomes(proc, exitCode) :
        /\ waitResult' = w
        /\ calls' = Call("Wait", w = "exit0")
        /\ serverStdin' = "closed"
        /\ IF w = "exit0"
             THEN /\ ret' = Return("shutdownServer", NoErr)
                  /\ pc' = "b_tar"
                  /\ out' = out
             ELSE /\ ret' = Return("shutdownServer",
                                   "server process failed to close")
                  /\ out' = Fatal("error shutting down server")
                  /\ pc' = "fatal"
    /\ UNCHANGED <<world, registered, envSig, sig, procVars, stdinLog, files>>

(* ------------------------------------------------------------ uploadFile *)
\* main.go:80-109: the errors uploadFile can return.  The write is
\* conditional on the object not existing (main.go:98), so it cannot succeed
\* when the key exists.
uploadFile(fileExists, exists) ==
    {"storage.NewClient"} \cup
    (IF ~fileExists
       THEN {"os.Open"}
       ELSE {"io.Copy", "Writer.Close"} \cup
            (IF exists THEN {} ELSE {NoErr}))

(* ----------------------------------------------------------- backupWorld *)
ArchiveOps == {"tar", "uploadFile", "rm"}

\* a compression failure that does not return
BackupTarContinue ==
    /\ pc = "b_tar"
    /\ \E ok \in BOOLEAN :
        /\ calls' = Call("tar", ok)
        /\ out' = Append(out, "compressing world files")
        /\ localArchive' \in (IF ok THEN {TRUE} ELSE BOOLEAN)
        /\ pc' = "b_upload"
        /\ ret' = ret
    /\ UNCHANGED <<world, registered, envSig, sig, procVars, waitResult, serverStdin,
                   stdinLog, keyExists>>

\* main.go:114-124, and main.go:165-167 on failure
BackupTar ==
    /\ pc = "b_tar"
    /\ \E ok \in BOOLEAN :
        /\ calls' = Call("tar", ok)
        /\ IF ok
             THEN /\ localArchive' = TRUE
                  /\ out' = Append(out, "compressing world files")
                  /\ pc' = "b_upload"
                  /\ ret' = ret
             ELSE /\ localArchive' \in BOOLEAN
                  /\ ret' = Return("backupWorld",
                                   "failed to compress world files")
                  /\ out' = out \o <<"compressing world files",
                                     "error in backing up world files">>
                  /\ pc' = "fatal"
    /\ UNCHANGED <<world, registered, envSig, sig, procVars, waitResult, serverStdin,
                   stdinLog, keyExists>>

\* an upload after whose success backupWorld returns at once
BackupUploadReturnsEarly ==
    /\ pc = "b_upload"
    /\ \E e \in uploadFile(localArchive, keyExists) :
        /\ calls' = Call("uploadFile", e = NoErr)
        /\ ret' = IF e = NoErr
                    THEN [ret EXCEPT !["uploadFile"] = e,
                                     !["backupWorld"] = NoErr]
                    ELSE Return("uploadFile", e)
        /\ keyExists' = (keyExists \/ e = NoErr)
        /\ out' = IF e = NoErr
                    THEN out \o <<"uploading world files to storage bucket",
                                  SuccessLine>>
                    ELSE Append(out, "uploading world files to storage bucket")
        /\ pc' = IF e = NoErr THEN "done" ELSE "b_rm"
    /\ UNCHANGED <<world, registered, envSig, sig, procVars, waitResult,
                   serverStdin, stdinLog, localArchive>>

\* main.go:127-129: the value uploadFile returns is discarded
BackupUpload ==
    /\ pc = "b_upload"
    /\ \E e \in uploadFile(localArchive, keyExists) :
        /\ calls' = Call("uploadFile", e = NoErr)
        /\ ret' = Return("uploadFile", e)
        /\ keyExists' = (keyExists \/ e = NoErr)
        /\ out' = Append(out, "uploading world files to storage bucket")
        /\ pc' = "b_rm"
    /\ UNCHANGED <<world, registered, envSig, sig, procVars, waitResult, serverStdin,
                   stdinLog, localArchive>>

\* rm fails when the file is absent, and may fail when it is present
RmOutcomes(fileExists) == IF fileExists THEN BOOLEAN ELSE {FALSE}

\* a failed delete that is reported but not returned
BackupRmIgnoreErr ==
    /\ pc = "b_rm"
    /\ \E ok \in RmOutcomes(localArchive) :
        /\ calls' = Call("rm", ok)
        /\ localArchive' = (localArchive /\ ~ok)
        /\ ret' = Return("backupWorld", NoErr)
        /\ out' = out \o <<"cleaning up local archive file", SuccessLine>>
        /\ pc' = "done"
    /\ UNCHANGED <<world, registered, envSig, sig, procVars, waitResult, serverStdin,
                   stdinLog, keyExists>>

\* main.go:132-139, and main.go:165-169
BackupRm ==
    /\ pc = "b_rm"
    /\ \E ok \in RmOutcomes(localArchive) :
        /\ calls' = Call("rm", ok)
        /\ IF ok
             THEN /\ localArchive' = FALSE
                  /\ ret' = Return("backupWorld", NoErr)
                  /\ out' = out \o <<"cleaning up local archive file",
                                     SuccessLine>>
                  /\ pc' = "done"
             ELSE /\ localArchive' = localArchive
                  /\ ret' = Return("backupWorld",
                                   "failed to delete local world archive")
                  /\ out' = out \o <<"cleaning up local archive file",
                                     "error in backing up world files">>
                  /\ pc' = "fatal"
    /\ UNCHANGED <<world, registered, envSig, sig, procVars, waitResult, serverStdin,
                   stdinLog, keyExists>>

(* ------------------------------------------------------------------ Spec *)
Next ==
    \/ Notify
    \/ DeliverSignal
    \/ ValidateNet
    \/ ValidateEnv
    \/ ValidateToken
    \/ ValidateJDK
    \/ StartPipe
    \/ StartSpawn
    \/ ServerExit
    \/ ReceiveSignal
    \/ ShutdownWrite
    \/ ShutdownWait
    \/ BackupTar
    \/ BackupUpload
    \/ BackupRm

Spec == Init /\ [][Next]_vars

\* main is a running goroutine: a wait that can return does return
FairSpec == Spec /\ WF_vars(ShutdownWait)

TypeOK ==
    /\ world \in Worlds
    /\ pc \in {"notify", "v_net", "v_env", "v_token", "v_jdk", "s_pipe",
               "s_start", "recv", "sd_write", "sd_wait", "b_tar", "b_upload",
               "b_rm", "done", "fatal", "killed"}
    /\ registered \in BOOLEAN
    /\ Len(sigs) <= SigChanCap
    /\ nDelivered \in 0..MaxSignals
    /\ firstSig \in Signals \cup {NoSig}
    /\ (firstSig = NoSig) = (firstSigAt = NoSig)
    /\ sig \in Signals \cup {NoSig}
    /\ proc \in {"unstarted", "running", "exited"}
    /\ exitCode \in ExitCodes
    /\ waitResult \in {Unset, "exit0", "nonzero", "waiterr"}
    /\ serverStdin \in {"nil", "pipe", "closed"}
    /\ keyExists \in BOOLEAN
    /\ localArchive \in BOOLEAN

(* ------------------------------------------------------------ properties *)
Did(op) == \E i \in DOMAIN calls : calls[i].op = op

Failed(op) == \E i \in DOMAIN calls : calls[i].op = op /\ ~calls[i].ok

Before(a, b) ==
    \A j \in DOMAIN calls : calls[j].op = b =>
        \E i \in 1..(j - 1) : calls[i].op = a /\ calls[i].ok

ArchiveOpDone == \E i \in DOMAIN calls : calls[i].op \in ArchiveOps

InBackup == pc \in {"b_tar", "b_upload", "b_rm"}

StopInvoked ==
    \/ pc \in {"sd_write", "sd_wait"}
    \/ Did("WriteString")
    \/ Did("Wait")
    \/ ret["shutdownServer"] # Unset

IsErr(f) == ret[f] \notin {Unset, NoErr}

\* C1: the backup pipeline begins only after shutdownServer has returned nil;
\* whenever main is in the backup or an archive operation has been performed,
\* the subprocess has exited and the wait has observed its exit.
C1_BackupOnlyAfterStop ==
    (InBackup \/ ArchiveOpDone) =>
        /\ ret["shutdownServer"] = NoErr
        /\ proc = "exited"
        /\ waitResult = "exit0"
        /\ Before("Wait", "tar")

C1_Witness ==
    /\ Did("tar")
    /\ Did("uploadFile")
    /\ proc = "exited"
    /\ ret["shutdownServer"] = NoErr

\* C2: shutdownServer is invoked only after startServer returned nil with a
\* spawned process and a non-nil control channel; if startServer returned an
\* error, shutdownServer is never invoked and the program has exited.
C2_StopOnlyAfterStart ==
    /\ StopInvoked =>
        /\ ret["startServer"] = NoErr
        /\ Before("Start", "WriteString")
        /\ proc # "unstarted"
        /\ serverStdin # "nil"
    /\ pc = "sd_write" => serverStdin = "pipe"
    /\ IsErr("startServer") => ~StopInvoked /\ pc = "fatal"

C2_Witness ==
    /\ Did("WriteString")
    /\ ret["startServer"] = NoErr
    /\ pc = "sd_wait"

\* C3: when the destination key already exists the upload fails and the
\* backup fails at the upload step: no delete is performed, the archive stays
\* on disk and backupWorld does not return success.
C3_DeleteOnlyAfterUpload ==
    (keyExists /\ IsErr("uploadFile")) =>
        /\ ~Did("rm")
        /\ localArchive
        /\ ret["backupWorld"] # NoErr

\* C4: the validation checks run in the order network, credential (env
\* file, then token), runtime; a failed check is the last operation the
\* program performs, and validateStartup returns that check's error.
C4_ValidationShortCircuits ==
    LET checks == SelectSeq(calls, LAMBDA c : c.op \in ValidationOps)
    IN  /\ Len(checks) <= Len(ValidationOrder)
        /\ \A i \in 1..Len(checks) :
            /\ checks[i].op = ValidationOrder[i]
            /\ calls[i] = checks[i]
            /\ ~checks[i].ok =>
                /\ i = Len(calls)
                /\ ret["validateStartup"] = ValidationErr(checks[i].op)
                /\ pc = "fatal"
        /\ IsErr("validateStartup") => Failed(calls[Len(calls)].op)

C4_Witness ==
    /\ Len(calls) = 3
    /\ calls[1].ok /\ calls[2].ok /\ ~calls[3].ok
    /\ calls[3].op = "Getenv"
    /\ IsErr("validateStartup")

\* C5: if the wait reports a non-zero exit status or fails itself,
\* shutdownServer returns an error, the program exits, and no compression,
\* upload or delete is ever performed.
C5_WaitFailureSkipsBackup ==
    waitResult \in {"nonzero", "waiterr"} =>
        /\ ret["shutdownServer"] = "server process failed to close"
        /\ ~ArchiveOpDone
        /\ ret["backupWorld"] = Unset
        /\ ret["uploadFile"] = Unset
        /\ pc = "fatal"

C5_Witness ==
    /\ waitResult = "nonzero"
    /\ proc = "exited"
    /\ exitCode # 0
    /\ pc = "fatal"

\* C6: shutdownServer writes "stop\n" to the control channel exactly once,
\* the write completes before the wait begins, and when the wait reports
\* exit status 0 shutdownServer returns nil.
C6_StopWrittenOnceThenWait ==
    /\ Len(stdinLog) <= 1
    /\ \A i \in DOMAIN stdinLog : stdinLog[i] = "stop\n"
    /\ (pc = "sd_wait" \/ Did("Wait")) =>
        /\ stdinLog = <<"stop\n">>
        /\ Before("WriteString", "Wait")
    /\ waitResult = "exit0" => ret["shutdownServer"] = NoErr
    /\ ret["shutdownServer"] = NoErr => Len(stdinLog) = 1

C6_Witness ==
    /\ waitResult = "exit0"
    /\ ret["shutdownServer"] = NoErr
    /\ stdinLog = <<"stop\n">>

\* C7: the listener is registered before the subprocess is started; the
\* first signal delivered after registration stays in the channel until main
\* receives, and the value main receives is that first signal, after which
\* main is in the shutdown sequence.
C7_FirstSignalNotLost ==
    /\ (proc # "unstarted" \/ Did("Start")) => registered
    /\ (firstSig # NoSig /\ sig = NoSig) => sigs = <<firstSig>>
    /\ sig # NoSig =>
        /\ sig = firstSig
        /\ pc \notin {"notify", "v_net", "v_env", "v_token", "v_jdk",
                      "s_pipe", "s_start", "recv", "killed"}
        /\ StopInvoked

C7_Witness ==
    /\ sig = "SIGINT"
    /\ firstSigAt = "v_token"
    /\ nDelivered = MaxSignals
    /\ pc = "sd_wait"

\* C8 (as stated): a failed delete of the local archive after a successful
\* upload is non-fatal; the run still ends with the success line.
C8_CleanupFailureNonFatal ==
    (Failed("rm") /\ ret["uploadFile"] = NoErr) =>
        /\ pc = "done"
        /\ SuccessLine = out[Len(out)]

\* C8 (amended): a failed delete of the local archive is fatal; backupWorld
\* returns the delete error, main exits through log.Fatal and the success
\* line is never logged.
C8_CleanupFailureFatal ==
    Failed("rm") =>
        /\ ret["backupWorld"] = "failed to delete local world archive"
        /\ pc = "fatal"
        /\ \A i \in DOMAIN out : out[i] # SuccessLine
        /\ localArchive

C8_Witness ==
    /\ Failed("rm")
    /\ ret["uploadFile"] = NoErr
    /\ pc = "fatal"

\* C9: if the compression tool fails, backupWorld returns the compression
\* error at once and neither the upload nor the delete is attempted.
C9_CompressionFailureAborts ==
    Failed("tar") =>
        /\ ret["backupWorld"] = "failed to compress world files"
        /\ ~Did("uploadFile")
        /\ ~Did("rm")
        /\ ret["uploadFile"] = Unset
        /\ pc = "fatal"

C9_Witness ==
    /\ Failed("tar")
    /\ ret["shutdownServer"] = NoErr
    /\ pc = "fatal"

\* C10: a validation, start or stop failure ends the program with no later
\* stage executed, and the success line is logged only when validation,
\* start, signal receipt, stop, compression, upload and cleanup all
\* succeeded, in that order.
C10_SuccessOnlyAfterAllStages ==
    /\ IsErr("validateStartup") =>
           pc = "fatal" /\ ret["startServer"] = Unset /\ ~Did("StdinPipe")
    /\ IsErr("startServer") =>
           pc = "fatal" /\ sig = NoSig /\ ~StopInvoked
    /\ IsErr("shutdownServer") =>
           pc = "fatal" /\ ~ArchiveOpDone /\ ret["backupWorld"] = Unset
    /\ (pc = "done" \/ \E i \in DOMAIN out : out[i] = SuccessLine) =>
        /\ \A f \in Funcs : ret[f] = NoErr
        /\ sig # NoSig
        /\ \A i \in DOMAIN calls : calls[i].ok
        /\ [i \in DOMAIN calls |-> calls[i].op] =
               ValidationOrder \o <<"StdinPipe", "Start", "WriteString",
                                    "Wait", "tar", "uploadFile", "rm">>

Count(op) == Cardinality({i \in DOMAIN calls : calls[i].op = op})

RecvLine == "recieved signal, starting graceful shutdown"

NRecv == Cardinality({i \in DOMAIN out : out[i] = RecvLine})

\* C11: every validation check runs at most once and all of them have
\* passed before the pipe is acquired or the subprocess is spawned; when
\* validation or either step of startServer fails, the program has exited
\* and no subprocess was ever started.
C11_ValidateOnceBeforeSpawn ==
    /\ \A op \in ValidationOps : Count(op) <= 1
    /\ (Did("StdinPipe") \/ Did("Start") \/ proc # "unstarted") =>
        /\ ret["validateStartup"] = NoErr
        /\ \A i \in 1..Len(ValidationOrder) :
               calls[i] = [op |-> ValidationOrder[i], ok |-> TRUE]
    /\ (IsErr("validateStartup") \/ IsErr("startServer")) =>
        /\ pc = "fatal"
        /\ proc = "unstarted"
        /\ ~StopInvoked

C11_Witness ==
    /\ Failed("Start")
    /\ ret["validateStartup"] = NoErr
    /\ proc = "unstarted"
    /\ pc = "fatal"

NetworkUp == ~world.transportErr /\ world.status \in 200..299

\* C12 (as stated): validateStartup returns nil exactly when the network
\* check passes (no transport error and an HTTP-success status), the token
\* is non-empty and java -version exits with status 0, and then the checks
\* ran in the order network, token, runtime.
C12_ValidateIffThreeChecks ==
    ret["validateStartup"] # Unset =>
        /\ (ret["validateStartup"] = NoErr) <=>
               (NetworkUp /\ world.ghToken # "" /\ world.javaExit = 0)
        /\ ret["validateStartup"] = NoErr =>
               /\ Before("Head", "Getenv")
               /\ Before("Getenv", "java -version")

\* C12 (amended): validateStartup returns nil exactly when the HEAD request
\* has no transport error and status 200, the env file loads, the token is
\* non-empty and java -version exits with status 0; the checks then ran in
\* the order network, env file, token, runtime.
C12_ValidateIffAllChecks ==
    ret["validateStartup"] # Unset =>
        /\ (ret["validateStartup"] = NoErr) <=>
               /\ ~world.transportErr
               /\ world.status = 200
               /\ ~world.loadErr
               /\ world.ghToken # ""
               /\ world.javaExit = 0
        /\ ret["validateStartup"] = NoErr =>
               \A i \in 1..Len(ValidationOrder) :
                   calls[i] = [op |-> ValidationOrder[i], ok |-> TRUE]

C12_Witness ==
    /\ ret["validateStartup"] = NoErr
    /\ world.ghToken = "abc"
    /\ world.status = 200
    /\ pc = "s_pipe"

\* C13: the subprocess is started at most once, and every write to the
\* control channel happens after the subprocess was started and before any
\* wait on it has returned, through the pipe main holds.
C13_SingleShotLifecycle ==
    /\ Count("Start") <= 1
    /\ Count("StdinPipe") <= 1
    /\ \A i \in DOMAIN calls : calls[i].op = "WriteString" =>
        /\ \E j \in 1..(i - 1) : calls[j] = [op |-> "Start", ok |-> TRUE]
        /\ \A j \in 1..(i - 1) : calls[j].op # "Wait"
    /\ pc = "sd_write" =>
        /\ proc # "unstarted"
        /\ waitResult = Unset
        /\ serverStdin = "pipe"
    /\ Len(stdinLog) <= Count("WriteString")

C13_Witness ==
    /\ Did("WriteString")
    /\ Did("Wait")
    /\ Count("Start") = 1
    /\ serverStdin = "closed"

ShutdownEdges ==
    {<<"sd_write", "sd_wait">>, <<"sd_write", "fatal">>,
     <<"sd_wait", "b_tar">>, <<"sd_wait", "fatal">>,
     <<"b_tar", "b_upload">>, <<"b_tar", "fatal">>,
     <<"b_upload", "b_rm">>, <<"b_rm", "done">>, <<"b_rm", "fatal">>}

\* C14: main receives from the signal channel at most once, and exactly
\* once in every run that reaches shutdownServer; the receive leads to
\* shutdownServer whichever signal was received, the received value never
\* changes, and every later step of main follows the one stop-then-backup
\* sequence.
C14_OneReceiveSameSequence ==
    [][/\ NRecv' <= 1
       /\ StopInvoked' => NRecv' = 1
       /\ \A s \in Signals : (sig = NoSig /\ sig' = s) =>
              (pc = "recv" /\ pc' = "sd_write" /\ calls' = calls)
       /\ sig # NoSig =>
              /\ sig' = sig
              /\ pc' # pc => <<pc, pc'>> \in ShutdownEdges]_vars

C14_Witness ==
    /\ sig = "SIGTERM"
    /\ NRecv = 1
    /\ pc = "done"

\* C15: the channel never holds more than one signal; a signal delivered
\* while the slot is full is dropped, the delivery itself is never blocked,
\* and after the receive no signal is ever taken from the channel or moves
\* main.
C15_SingleSlotChannel ==
    /\ [](Len(sigs) <= 1)
    /\ []((~Terminated /\ nDelivered < MaxSignals) => ENABLED DeliverSignal)
    /\ [][/\ (nDelivered' # nDelivered /\ Len(sigs) = 1) =>
              (sigs' = sigs /\ pc' = pc /\ sig' = sig /\ calls' = calls)
          /\ sig # NoSig =>
              /\ sig' = sig
              /\ Len(sigs') >= Len(sigs)
              /\ nDelivered' # nDelivered => (pc' = pc /\ calls' = calls)
         ]_vars

C15_Witness ==
    /\ nDelivered = 2
    /\ Len(sigs) = 1
    /\ sig # NoSig
    /\ pc = "b_upload"

\* C16: after the stop command is written main leaves the wait only when
\* the subprocess has exited; no step of main ends the subprocess, so while
\* it runs main stays in the wait and reaches neither the backup nor its
\* exit; once the subprocess has exited the wait returns.
C16_NoTimeoutOnWait ==
    /\ []((stdinLog # <<>> /\ pc # "sd_wait") => proc = "exited")
    /\ [][/\ (pc = "sd_wait" /\ pc' # "sd_wait") =>
              (proc = "exited" /\ waitResult' # Unset)
          /\ (pc = "sd_wait" /\ proc' # proc) =>
              (pc' = "sd_wait" /\ waitResult' = Unset)
         ]_vars
    /\ (pc = "sd_wait" /\ proc = "exited") ~> (pc # "sd_wait")

C16_Witness ==
    /\ waitResult = "exit0"
    /\ proc = "exited"
    /\ pc = "b_tar"

RmDone == \E i \in DOMAIN calls : calls[i] = [op |-> "rm", ok |-> TRUE]

\* C17: after an upload that returned nil the delete of the local archive
\* is the next step, so the program never exits without having attempted
\* it; when the delete succeeded no local archive remains at exit.
C17_ArchiveDeletedAfterUpload ==
    /\ ret["uploadFile"] = NoErr =>
        /\ pc \in {"b_rm", "done", "fatal"}
        /\ pc # "b_rm" => Did("rm")
    /\ (ret["uploadFile"] = NoErr /\ Terminated) => Did("rm")
    /\ (RmDone /\ Terminated) => (~localArchive /\ pc = "done")

C17_Witness ==
    /\ ret["uploadFile"] = NoErr
    /\ RmDone
    /\ ~localArchive
    /\ pc = "done"

\* C18: the stdin pipe is acquired before the subprocess is spawned, a
\* running subprocess always has its pipe held by the supervisor, a failed
\* pipe acquisition means no spawn, and an error return of startServer
\* leaves main with a nil control channel.
C18_PipeBeforeSpawn ==
    /\ proc = "running" => serverStdin = "pipe"
    /\ Did("Start") => Before("StdinPipe", "Start")
    /\ Failed("StdinPipe") => (~Did("Start") /\ proc = "unstarted")
    /\ IsErr("startServer") => serverStdin = "nil"

C18_Witness ==
    /\ proc = "running"
    /\ serverStdin = "pipe"
    /\ sig = NoSig
    /\ pc = "recv"

\* C19: main leaves the wait for a signal only by receiving one, and does
\* nothing else while it waits, even when the subprocess has exited; a stop
\* command written after the subprocess has exited fails, and the program
\* then exits with no wait and no backup.
C19_ExitBeforeSignal ==
    [][/\ (pc = "recv" /\ pc' # "recv") =>
           (Len(sigs) > 0 /\ sig' = Head(sigs) /\ pc' = "sd_write")
       /\ pc = "recv" =>
           (calls' = calls /\ ret' = ret /\ serverStdin' = serverStdin)
       /\ (pc = "sd_write" /\ proc = "exited" /\ pc' # pc) =>
           /\ pc' = "fatal"
           /\ Failed("WriteString")'
           /\ IsErr("shutdownServer")'
           /\ stdinLog' = <<>>
           /\ ~ArchiveOpDone'
           /\ ret'["backupWorld"] = Unset
      ]_vars

C19_Witness ==
    /\ Failed("WriteString")
    /\ proc = "exited"
    /\ firstSigAt = "recv"
    /\ stdinLog = <<>>
    /\ pc = "fatal"

\* C20: when the write of the stop command fails, shutdownServer returns
\* the write error without waiting, the program exits with no backup, and
\* no step of the supervisor ever ends the subprocess, which may still be
\* running then.
C20_WriteFailureLeavesServer ==
    /\ [](Failed("WriteString") =>
            /\ ~Did("Wait")
            /\ waitResult = Unset
            /\ ret["shutdownServer"] = "error writing to server process stdin"
            /\ ~ArchiveOpDone
            /\ pc = "fatal")
    /\ [][(proc = "running" /\ proc' # "running") =>
              (pc' = pc /\ calls' = calls /\ ret' = ret)]_vars

C20_Witness ==
    /\ Failed("WriteString")
    /\ proc = "running"
    /\ pc = "fatal"

====
